---------------------------- MODULE Spec2Model ----------------------------
(***************************************************************************)
(* rlox: a single-pass compiler (scanner + Pratt parser) and a bytecode    *)
(* stack machine for a small expression language.                          *)
(*                                                                         *)
(* The model follows src/src/vm.rs, src/src/value.rs, src/src/chunk.rs,    *)
(* src/src/compiler/mod.rs, src/src/compiler/scanner.rs and                *)
(* src/src/compiler/parse_rule.rs.                                         *)
(*                                                                         *)
(* Source text is a sequence of one-character strings.  Numbers (f32 in    *)
(* the code) are exact rationals num/den with den = 0 for the IEEE         *)
(* specials (+inf = 1/0, -inf = -1/0, NaN = 0/0); rounding and the sign of *)
(* zero are not represented.                                               *)
(***************************************************************************)
EXTENDS Integers, Sequences, FiniteSets, TLC

(***************************************************************************)
(* Program constants                                                       *)
(***************************************************************************)
\* vm.rs:19
MAX_STACK_SIZE == 256
\* compiler/mod.rs:211, `add_constant(value) as u8`: the width of the cast
U8_RANGE == 256

(***************************************************************************)
(* Bounds of the model                                                     *)
(***************************************************************************)
\* longest source text enumerated exhaustively over Alphabet
MaxSrcLen == 3
\* most operators in an expression whose chunk is written by hand
MaxOps == 1

(***************************************************************************)
(* Characters                                                              *)
(***************************************************************************)
Digits == {"0", "1", "2", "3", "4", "5", "6", "7", "8", "9"}

Letters == {"a", "b", "c", "d", "e", "f", "g", "h", "i", "j", "k", "l", "m",
            "n", "o", "p", "q", "r", "s", "t", "u", "v", "w", "x", "y", "z"}

\* scanner.rs:283-285
is_digit(c) == c \in Digits

\* scanner.rs:287-289
is_alpha(c) == c \in Letters

\* value of a decimal digit (str::parse::<f32>, value.rs:89-95)
DigitVal(c) ==
    CASE c = "0" -> 0 [] c = "1" -> 1 [] c = "2" -> 2 [] c = "3" -> 3
      [] c = "4" -> 4 [] c = "5" -> 5 [] c = "6" -> 6 [] c = "7" -> 7
      [] c = "8" -> 8 [] c = "9" -> 9

\* byte order of the characters that occur in string values (String's Ord
\* behind the derived PartialOrd of object.rs:9-12)
CharCode(c) ==
    CASE c = "\n" -> 10 [] c = "\"" -> 34
      [] c = "a" -> 97 [] c = "b" -> 98 [] c = "g" -> 103 [] c = "i" -> 105
      [] c = "n" -> 110 [] c = "r" -> 114 [] c = "s" -> 115 [] c = "t" -> 116
      [] OTHER -> 63

(***************************************************************************)
(* Numbers: f32 as exact rationals with the IEEE specials                  *)
(***************************************************************************)
Abs(n) == IF n < 0 THEN -n ELSE n

Sign(n) == IF n < 0 THEN -1 ELSE IF n > 0 THEN 1 ELSE 0

RECURSIVE GCD(_, _)
GCD(a, b) == IF b = 0 THEN a ELSE GCD(b, a % b)

\* the canonical form of num/den
Norm(n, d) ==
    IF d = 0 THEN [num |-> Sign(n), den |-> 0]
    ELSE LET s == IF d < 0 THEN -1 ELSE 1
             g == GCD(Abs(n), Abs(d))
         IN  [num |-> (s * n) \div g, den |-> (s * d) \div g]

Num(n) == [num |-> n, den |-> 1]

IsNaN(x) == x.den = 0 /\ x.num = 0

IsInf(x) == x.den = 0 /\ x.num # 0

\* f32 + f32
NumAdd(x, y) ==
    IF IsInf(x) /\ IsInf(y)
    THEN (IF x.num = y.num THEN x ELSE [num |-> 0, den |-> 0])
    ELSE Norm(x.num * y.den + y.num * x.den, x.den * y.den)

\* -f32
NumNeg(x) == [num |-> -x.num, den |-> x.den]

\* f32 - f32
NumSub(x, y) == NumAdd(x, NumNeg(y))

\* f32 * f32
NumMul(x, y) == Norm(x.num * y.num, x.den * y.den)

\* f32 / f32 (division by zero gives an infinity or NaN, never an error)
NumDiv(x, y) == Norm(x.num * y.den, x.den * y.num)

\* f32 < f32 (false when either side is NaN)
NumLess(x, y) ==
    IF IsNaN(x) \/ IsNaN(y) THEN FALSE
    ELSE IF IsInf(x) /\ IsInf(y) THEN x.num < y.num
    ELSE x.num * y.den < y.num * x.den

\* f32 == f32 (NaN is not equal to itself)
NumEq(x, y) == ~IsNaN(x) /\ ~IsNaN(y) /\ x = y

(***************************************************************************)
(* Values (value.rs:98-104) and objects (object.rs:4-12)                   *)
(***************************************************************************)
VAL_BOOL(b) == [tag |-> "VAL_BOOL", b |-> b, n |-> Num(0), s |-> <<>>]

VAL_NIL == [tag |-> "VAL_NIL", b |-> FALSE, n |-> Num(0), s |-> <<>>]

VAL_NUMBER(x) == [tag |-> "VAL_NUMBER", b |-> FALSE, n |-> x, s |-> <<>>]

\* Value::VAL_OBJECT(Object { object_type: OBJ_STRING(text) })
VAL_OBJECT(text) == [tag |-> "VAL_OBJECT", b |-> FALSE, n |-> Num(0), s |-> text]

\* an operand stack slot that was never written (Option::None, vm.rs:190-193)
STACK_INIT == [tag |-> "None", b |-> FALSE, n |-> Num(0), s |-> <<>>]

IsNumber(v) == v.tag = "VAL_NUMBER"

IsString(v) == v.tag = "VAL_OBJECT"

\* Result<f32>: Ok(x) or Err("Value must be a number")
Ok(x) == [ok |-> TRUE, val |-> x]

Err == [ok |-> FALSE, val |-> Num(0)]

\* impl Add for Value
ValueAdd(lhs, rhs) ==
    IF IsNumber(lhs) /\ IsNumber(rhs) THEN Ok(NumAdd(lhs.n, rhs.n)) ELSE Err

\* impl Mul for Value
ValueMul(lhs, rhs) ==
    IF IsNumber(lhs) /\ IsNumber(rhs) THEN Ok(NumMul(lhs.n, rhs.n)) ELSE Err

\* impl Div for Value
ValueDiv(lhs, rhs) ==
    IF IsNumber(lhs) /\ IsNumber(rhs) THEN Ok(NumDiv(lhs.n, rhs.n)) ELSE Err

\* impl Sub for Value
ValueSub(lhs, rhs) ==
    IF IsNumber(lhs) /\ IsNumber(rhs) THEN Ok(NumSub(lhs.n, rhs.n)) ELSE Err

\* impl Neg for Value: Result<Value>
ValueNeg(v) ==
    IF IsNumber(v) THEN [ok |-> TRUE, val |-> VAL_NUMBER(NumNeg(v.n))]
    ELSE [ok |-> FALSE, val |-> VAL_NIL]

\* the position of a variant in the enum, which the derived PartialOrd
\* compares first
Discriminant(v) ==
    CASE v.tag = "VAL_BOOL" -> 0
      [] v.tag = "VAL_NIL" -> 1
      [] v.tag = "VAL_NUMBER" -> 2
      [] v.tag = "VAL_OBJECT" -> 3

\* String < String: lexicographic on bytes
RECURSIVE StrLess(_, _)
StrLess(s, t) ==
    IF t = <<>> THEN FALSE
    ELSE IF s = <<>> THEN TRUE
    ELSE IF CharCode(Head(s)) # CharCode(Head(t))
         THEN CharCode(Head(s)) < CharCode(Head(t))
    ELSE StrLess(Tail(s), Tail(t))

\* a < b by #[derive(PartialOrd)] on Value: defined for every pair of tags
ValueLt(a, b) ==
    IF Discriminant(a) # Discriminant(b) THEN Discriminant(a) < Discriminant(b)
    ELSE CASE a.tag = "VAL_BOOL" -> (~a.b /\ b.b)
           [] a.tag = "VAL_NIL" -> FALSE
           [] a.tag = "VAL_NUMBER" -> NumLess(a.n, b.n)
           [] a.tag = "VAL_OBJECT" -> StrLess(a.s, b.s)

\* a > b by #[derive(PartialOrd)] on Value
ValueGt(a, b) == ValueLt(b, a)

\* a == b by #[derive(PartialEq)] on Value
ValueEq(a, b) ==
    /\ a.tag = b.tag
    /\ CASE a.tag = "VAL_BOOL" -> a.b = b.b
         [] a.tag = "VAL_NIL" -> TRUE
         [] a.tag = "VAL_NUMBER" -> NumEq(a.n, b.n)
         [] a.tag = "VAL_OBJECT" -> a.s = b.s

\* impl Display for Value, used by Value::to_string: both Value and Object
\* format with writeln!, so a string object prints as its text and two
\* line feeds
ValueToString(v) ==
    CASE v.tag = "VAL_OBJECT" -> v.s \o <<"\n", "\n">>
      [] v.tag = "VAL_BOOL" -> (IF v.b THEN <<"t", "r", "u", "e", "\n">>
                                       ELSE <<"f", "a", "l", "s", "e", "\n">>)
      [] v.tag = "VAL_NIL" -> <<"n", "i", "l", "\n">>
      [] OTHER -> <<"?", "\n">>

(***************************************************************************)
(* Opcodes (op_code.rs:5-20), as the bytes #[repr(u8)] gives them          *)
(***************************************************************************)
OP_CONSTANT == 0
OP_ADD == 1
OP_SUBTRACT == 2
OP_MULTIPLY == 3
OP_DIVIDE == 4
OP_NEGATE == 5
OP_RETURN == 6
OP_TRUE == 7
OP_FALSE == 8
OP_EQUAL == 9
OP_GREATER == 10
OP_LESS == 11
OP_NOT == 12
OP_NIL == 13

(***************************************************************************)
(* Chunk (chunk.rs:10-34) and ValueArray (value.rs:117-132)                *)
(***************************************************************************)
\* Chunk::default()
EmptyChunk ==
    [code |-> <<>>, count |-> 0, lines |-> <<>>,
     constants |-> [count |-> 0, values |-> <<>>]]

\* ValueArray::write
ValueArrayWrite(arr, value) ==
    [count |-> arr.count + 1,
     values |-> IF Len(arr.values) < arr.count + 1
                THEN Append(arr.values, value)
                ELSE [arr.values EXCEPT ![arr.count + 1] = value]]

\* a write that forgets the line table
ChunkWrite_without_line(chunk, data, line) ==
    [chunk EXCEPT !.code = Append(@, data), !.count = @ + 1]

\* Chunk::write
ChunkWrite(chunk, data, line) ==
    IF Len(chunk.code) < chunk.count + 1
    THEN [chunk EXCEPT !.code = Append(@, data),
                       !.lines = Append(@, line),
                       !.count = @ + 1]
    ELSE [chunk EXCEPT !.code[chunk.count + 1] = data,
                       !.lines[chunk.count + 1] = line,
                       !.count = @ + 1]

\* Chunk::add_constant: the chunk with the value added, and the index returned
AddConstant(chunk, value) ==
    LET arr == ValueArrayWrite(chunk.constants, value)
    IN  [chunk |-> [chunk EXCEPT !.constants = arr], index |-> arr.count - 1]

(***************************************************************************)
(* Tokens (token.rs:1-18)                                                  *)
(***************************************************************************)
\* Token::new
Token(token_type, message, start, line) ==
    [token_type |-> token_type, message |-> message, start |-> start, line |-> line]

\* Option<Token>::None
NoToken == Token("None", <<>>, 0, 0)

(***************************************************************************)
(* Scanner (compiler/scanner.rs).  Offsets are 0-based as in the code:     *)
(* the byte at offset i is source[i + 1].  `it` is the offset reached by   *)
(* the peekable iterator that scan_token creates at self.start.            *)
(***************************************************************************)
\* Scanner::new
NewScanner(source) ==
    [source |-> source, start |-> 0, current |-> 0, line |-> 1,
     is_finished |-> FALSE]

\* what one scan_token call does: it returns Some(token) or None, or it
\* panics, or it never returns
ScanSome(tok, sc) == [kind |-> "Some", token |-> tok, scanner |-> sc]

ScanNone(sc) == [kind |-> "None", token |-> NoToken, scanner |-> sc]

ScanPanic(sc) == [kind |-> "panic", token |-> NoToken, scanner |-> sc]

ScanHang(sc) == [kind |-> "hang", token |-> NoToken, scanner |-> sc]

\* token.peek(): is there a byte at offset `it`
HasByte(source, it) == it < Len(source)

\* Scanner::is_at_end
is_at_end(sc) == sc.current = Len(sc.source)

\* Scanner::make_token: the slice source[start..current] panics when it is
\* out of range
make_token(sc, token_type) ==
    IF sc.start <= sc.current /\ sc.current <= Len(sc.source)
    THEN ScanSome(Token(token_type,
                        SubSeq(sc.source, sc.start + 1, sc.current),
                        sc.start, sc.line), sc)
    ELSE ScanPanic(sc)

\* Scanner::error_token
error_token(sc, message) ==
    ScanSome(Token("TOKEN_ERROR", <<message>>, sc.start, sc.line), sc)

\* Scanner::match_token: when there is no byte at `current` the test of the
\* byte is skipped and the cursor still moves
match_token(sc, expected) ==
    IF HasByte(sc.source, sc.current) /\ sc.source[sc.current + 1] # expected
    THEN [matched |-> FALSE, scanner |-> sc]
    ELSE [matched |-> TRUE, scanner |-> [sc EXCEPT !.current = @ + 1]]

\* Scanner::skip_whitespace.  hang: the inner loop of a `//` comment meets
\* a line feed, which it neither consumes nor leaves
RECURSIVE skip_whitespace(_, _)
skip_whitespace(sc, it) ==
    IF ~HasByte(sc.source, it) THEN [scanner |-> sc, it |-> it, hang |-> FALSE]
    ELSE
    LET c == sc.source[it + 1]
        n == Len(sc.source)
    IN  CASE c \in {" ", "\r", "\t"} ->
               skip_whitespace([sc EXCEPT !.current = @ + 1,
                                          !.start = sc.current + 1], it + 1)
          [] c = "\n" ->
               skip_whitespace([sc EXCEPT !.line = @ + 1,
                                          !.current = @ + 1,
                                          !.start = sc.current + 1], it + 1)
          [] c = "/" ->
               IF HasByte(sc.source, it + 1)
               THEN IF sc.source[it + 2] = "/"
                    THEN IF \E j \in (it + 3)..n : sc.source[j] = "\n"
                         THEN [scanner |-> sc, it |-> it, hang |-> TRUE]
                         ELSE skip_whitespace(
                                  [sc EXCEPT !.current = @ + 2 + (n - (it + 2))], n)
                    ELSE skip_whitespace([sc EXCEPT !.current = @ + 2], it + 2)
               ELSE [scanner |-> [sc EXCEPT !.current = @ + 1],
                     it |-> it + 1, hang |-> FALSE]
          [] OTHER -> [scanner |-> sc, it |-> it, hang |-> FALSE]

\* the number of digits at offsets it, it + 1, ...
RECURSIVE DigitRun(_, _)
DigitRun(source, it) ==
    IF HasByte(source, it) /\ is_digit(source[it + 1])
    THEN 1 + DigitRun(source, it + 1)
    ELSE 0

\* a number that takes a `.` after its digits whatever follows the `.`
number_token_any_dot(sc, it) ==
    LET k1 == DigitRun(sc.source, it)
        it1 == it + k1
        sc1 == [sc EXCEPT !.current = @ + k1]
    IN  IF HasByte(sc.source, it1) /\ sc.source[it1 + 1] = "."
        THEN make_token([sc1 EXCEPT !.current = @ + 1 + DigitRun(sc.source, it1 + 1)],
                        "TOKEN_NUMBER")
        ELSE make_token(sc1, "TOKEN_NUMBER")

\* Scanner::number
number_token(sc, it) ==
    LET k1 == DigitRun(sc.source, it)
        it1 == it + k1
        sc1 == [sc EXCEPT !.current = @ + k1]
        fraction == /\ HasByte(sc.source, it1)
                    /\ HasByte(sc.source, it1 + 1)
                    /\ sc.source[it1 + 1] = "."
                    /\ is_digit(sc.source[it1 + 2])
        k2 == DigitRun(sc.source, it1 + 1)
    IN  IF fraction
        THEN make_token([sc1 EXCEPT !.current = @ + 1 + k2], "TOKEN_NUMBER")
        ELSE make_token(sc1, "TOKEN_NUMBER")

\* Scanner::check_keyword: the cursor is set to the end of the candidate
\* keyword before the slice is taken, and the slice panics past the end
check_keyword(sc, start, rest, token_type) ==
    LET left == sc.start + start
        right == left + Len(rest)
        sc1 == [sc EXCEPT !.current = right]
    IN  IF right > Len(sc.source) THEN [panic |-> TRUE, type |-> "None", scanner |-> sc1]
        ELSE [panic |-> FALSE,
              type |-> IF SubSeq(sc.source, left + 1, right) = rest
                       THEN token_type ELSE "TOKEN_IDENTIFIER",
              scanner |-> sc1]

\* the last two lines of identifier_type: self.advance(); TOKEN_IDENTIFIER
PlainIdentifier(sc) ==
    [panic |-> FALSE, type |-> "TOKEN_IDENTIFIER",
     scanner |-> [sc EXCEPT !.current = @ + 1]]

\* Scanner::identifier_type
identifier_type(sc, it) ==
    LET c == sc.source[it + 1]
        sc1 == [sc EXCEPT !.current = @ + 1]
        second == IF HasByte(sc.source, it + 1) THEN sc.source[it + 2] ELSE "None"
    IN  CASE c = "a" -> check_keyword(sc, 1, <<"n", "d">>, "TOKEN_AND")
          [] c = "c" -> check_keyword(sc, 1, <<"l", "a", "s", "s">>, "TOKEN_CLASS")
          [] c = "e" -> check_keyword(sc, 1, <<"l", "s", "e">>, "TOKEN_ELSE")
          [] c = "f" ->
               (CASE second = "a" -> check_keyword(sc1, 2, <<"l", "s", "e">>, "TOKEN_FALSE")
                  [] second = "o" -> check_keyword(sc1, 2, <<"r">>, "TOKEN_FOR")
                  [] second = "u" -> check_keyword(sc1, 2, <<"n">>, "TOKEN_FUN")
                  [] OTHER -> PlainIdentifier(sc1))
          [] c = "i" -> check_keyword(sc, 1, <<"f">>, "TOKEN_IF")
          [] c = "n" -> check_keyword(sc, 1, <<"i", "l">>, "TOKEN_NIL")
          [] c = "o" -> check_keyword(sc, 1, <<"r">>, "TOKEN_OR")
          [] c = "p" -> check_keyword(sc, 1, <<"r", "i", "n", "t">>, "TOKEN_PRINT")
          [] c = "r" -> check_keyword(sc, 1, <<"e", "t", "u", "r", "n">>, "TOKEN_RETURN")
          [] c = "s" -> check_keyword(sc, 1, <<"u", "p", "e", "r">>, "TOKEN_SUPER")
          [] c = "v" -> check_keyword(sc, 1, <<"a", "r">>, "TOKEN_VAR")
          [] c = "w" -> check_keyword(sc, 1, <<"h", "i", "l", "e">>, "TOKEN_WHILE")
          [] c = "t" ->
               (CASE second = "h" -> check_keyword(sc1, 2, <<"i", "s">>, "TOKEN_THIS")
                  [] second = "r" -> check_keyword(sc1, 2, <<"u", "e">>, "TOKEN_TRUE")
                  [] OTHER -> PlainIdentifier(sc1))
          [] OTHER -> PlainIdentifier(sc)

\* Scanner::identifier
identifier_made(r) ==
    IF r.panic THEN ScanPanic(r.scanner) ELSE make_token(r.scanner, r.type)

identifier_token(sc, it) == identifier_made(identifier_type(sc, it))

\* Scanner::string, entered with the opening quote consumed (it = current)
string_token(sc, it) ==
    LET n == Len(sc.source)
        closes == {j \in (it + 1)..n : sc.source[j] = "\""}
        close == CHOOSE j \in closes : \A k \in closes : j <= k
        last == IF closes = {} THEN n ELSE close
        feeds == Cardinality({j \in (it + 1)..last : sc.source[j] = "\n"})
        sc1 == [sc EXCEPT !.current = @ + (last - it), !.line = @ + feeds]
    IN  IF closes = {} THEN error_token(sc1, "Unterminated string.")
        ELSE make_token(sc1, "TOKEN_STRING")

\* the `match **c as char` of scan_token for the operators of one or two bytes
TwoByteToken(sc, expected, two, one) ==
    IF match_token(sc, expected).matched
    THEN make_token([sc EXCEPT !.current = @ + 1], two)
    ELSE make_token(sc, one)

\* Scanner::scan_token
SingleByteTokens ==
    [x \in {"(", ")", "{", "}", ";", ",", ".", "-", "+", "/", "*"} |->
        CASE x = "(" -> "TOKEN_LEFT_PAREN"
          [] x = ")" -> "TOKEN_RIGHT_PAREN"
          [] x = "{" -> "TOKEN_LEFT_BRACE"
          [] x = "}" -> "TOKEN_RIGHT_BRACE"
          [] x = ";" -> "TOKEN_SEMICOLON"
          [] x = "," -> "TOKEN_COMMA"
          [] x = "." -> "TOKEN_DOT"
          [] x = "-" -> "TOKEN_MINUS"
          [] x = "+" -> "TOKEN_PLUS"
          [] x = "/" -> "TOKEN_SLASH"
          [] x = "*" -> "TOKEN_STAR"]

\* the `match **c as char` of scan_token, with the byte c at offset `it`
\* consumed: start = current, then advance
match_byte(sc, it, c) ==
    CASE c \in DOMAIN SingleByteTokens -> make_token(sc, SingleByteTokens[c])
      [] c = "!" -> TwoByteToken(sc, "-", "TOKEN_BANG_EQUAL", "TOKEN_BANG")
      [] c = "=" -> TwoByteToken(sc, "=", "TOKEN_EQUAL_EQUAL", "TOKEN_EQUAL")
      [] c = "<" -> TwoByteToken(sc, "=", "TOKEN_LESS_EQUAL", "TOKEN_LESS")
      [] c = ">" -> TwoByteToken(sc, "=", "TOKEN_GREATER_EQUAL", "TOKEN_GREATER")
      [] c = "\"" -> string_token(sc, it + 1)
      [] OTHER -> error_token(sc, "Unexpected character.")

\* scan_token after skip_whitespace
scan_after_whitespace(sc, it) ==
    IF sc.is_finished THEN ScanNone(sc)
    ELSE IF is_at_end(sc)
         THEN make_token([sc EXCEPT !.is_finished = TRUE], "TOKEN_EOF")
    ELSE IF ~HasByte(sc.source, it) THEN ScanNone(sc)
    ELSE IF is_digit(sc.source[it + 1])
         THEN number_token([sc EXCEPT !.start = sc.current], it)
    ELSE IF is_alpha(sc.source[it + 1])
         THEN identifier_token([sc EXCEPT !.start = sc.current], it)
    ELSE match_byte([sc EXCEPT !.start = sc.current, !.current = @ + 1],
                    it, sc.source[it + 1])

\* scan_token from the result of skip_whitespace
scan_skipped(sk) ==
    IF sk.hang THEN ScanHang(sk.scanner) ELSE scan_after_whitespace(sk.scanner, sk.it)

\* Scanner::scan_token
scan_token(sc0) ==
    scan_skipped(skip_whitespace([sc0 EXCEPT !.start = sc0.current], sc0.current))

(***************************************************************************)
(* Precedence (compiler/precedence.rs:6-27) and the parse rules            *)
(* (compiler/parse_rule.rs:22-225)                                         *)
(***************************************************************************)
PREC_NONE == 0
PREC_ASSIGNMENT == 1
PREC_OR == 2
PREC_AND == 3
PREC_EQUALITY == 4
PREC_COMPARISON == 5
PREC_TERM == 6
PREC_FACTOR == 7
PREC_UNARY == 8
PREC_CALL == 9
PREC_PRIMARY == 10

ParseRule(prefix, infix, precedence) ==
    [prefix |-> prefix, infix |-> infix, precedence |-> precedence]

\* ParseRule::from_token_type, reached through Compiler::get_rule: only
\* `(`, `-`, `+`, `/`, `*` and number tokens have a rule that is not
\* {Null, Null, PREC_NONE}
from_token_type(token_type) ==
    CASE token_type = "TOKEN_LEFT_PAREN" -> ParseRule("Grouping", "Null", PREC_NONE)
      [] token_type = "TOKEN_MINUS" -> ParseRule("Unary", "Binary", PREC_TERM)
      [] token_type = "TOKEN_PLUS" -> ParseRule("Null", "Binary", PREC_TERM)
      [] token_type = "TOKEN_SLASH" -> ParseRule("Null", "Binary", PREC_FACTOR)
      [] token_type = "TOKEN_STAR" -> ParseRule("Null", "Binary", PREC_FACTOR)
      [] token_type = "TOKEN_NUMBER" -> ParseRule("Number", "Null", PREC_NONE)
      [] OTHER -> ParseRule("Null", "Null", PREC_NONE)

(***************************************************************************)
(* Compiler (compiler/mod.rs).  A compiler value is the record             *)
(* [parser, scanner, chunk, diagnostics, status]; status is "ok" until a   *)
(* panic ("panic") or an endless loop ("hang") ends the call.              *)
(***************************************************************************)
\* Parser::new (compiler/parser.rs:10-18)
NewParser ==
    [current |-> NoToken, previous |-> NoToken, had_error |-> FALSE,
     panic_mode |-> TRUE]

\* Compiler::new
NewCompiler(chunk) ==
    [parser |-> NewParser, scanner |-> NewScanner(<<>>), chunk |-> chunk,
     diagnostics |-> <<>>, status |-> "ok"]

\* an error_at that prints whether or not panic_mode is set
error_at_unsuppressed(c, token, message) ==
    [c EXCEPT !.parser.panic_mode = TRUE,
              !.parser.had_error = TRUE,
              !.diagnostics = Append(@, [line |-> token.line,
                                         start |-> token.start,
                                         message |-> message])]

\* Compiler::error_at: one diagnostic is printed unless panic_mode is set
error_at(c, token, message) ==
    IF c.parser.panic_mode THEN c
    ELSE [c EXCEPT !.parser.panic_mode = TRUE,
                   !.parser.had_error = TRUE,
                   !.diagnostics = Append(@, [line |-> token.line,
                                              start |-> token.start,
                                              message |-> message])]

\* Compiler::error
error(c, message) ==
    IF c.parser.previous = NoToken THEN [c EXCEPT !.status = "panic"]
    ELSE error_at(c, c.parser.previous, message)

\* Compiler::error_at_current
error_at_current(c, message) ==
    IF c.parser.current = NoToken THEN c
    ELSE error_at(c, c.parser.current, message)

\* the loop of Compiler::advance: scan until a token that is no error token
RECURSIVE advance_loop(_)
RECURSIVE advance_scanned(_, _)
advance_loop(c) == advance_scanned(c, scan_token(c.scanner))

\* one turn of that loop, r being what scan_token did
advance_scanned(c, r) ==
    CASE r.kind \in {"panic", "hang"} ->
            [c EXCEPT !.scanner = r.scanner, !.parser.current = r.token,
                      !.status = r.kind]
      [] r.kind = "Some" /\ r.token.token_type = "TOKEN_ERROR" ->
            advance_loop(error_at_current(
                [c EXCEPT !.scanner = r.scanner, !.parser.current = r.token],
                r.token.message[1]))
      [] OTHER -> [c EXCEPT !.scanner = r.scanner, !.parser.current = r.token]

\* Compiler::advance
advance(c) == advance_loop([c EXCEPT !.parser.previous = c.parser.current])

\* Compiler::consume
consume(c, token_type, error_message) ==
    IF c.parser.current # NoToken /\ c.parser.current.token_type = token_type
    THEN advance(c)
    ELSE error_at_current(c, error_message)

\* Compiler::emit_byte
emit_byte(c, byte) ==
    IF c.parser.previous = NoToken THEN c
    ELSE [c EXCEPT !.chunk = ChunkWrite(@, byte, c.parser.previous.line)]

\* Compiler::emit_bytes
emit_bytes(c, byte1, byte2) == emit_byte(emit_byte(c, byte1), byte2)

\* Compiler::make_constant: the index is cast with `as u8`
make_constant(c, value) ==
    LET r == AddConstant(c.chunk, value)
    IN  [compiler |-> [c EXCEPT !.chunk = r.chunk], constant |-> r.index % U8_RANGE]

\* Compiler::emit_constant
emit_constant(c, value) ==
    LET r == make_constant(c, value)
    IN  emit_bytes(r.compiler, OP_CONSTANT, r.constant)

\* the digits of a lexeme as a natural number
RECURSIVE DigitsValue(_, _)
DigitsValue(lexeme, acc) ==
    IF lexeme = <<>> THEN acc
    ELSE DigitsValue(Tail(lexeme), 10 * acc + DigitVal(Head(lexeme)))

RECURSIVE Pow10(_)
Pow10(k) == IF k = 0 THEN 1 ELSE 10 * Pow10(k - 1)

\* str::parse::<Value> (value.rs:86-96) of a number lexeme: digits, or
\* digits "." digits
ParseValue(lexeme) ==
    LET dots == {i \in 1..Len(lexeme) : lexeme[i] = "."}
        dot == CHOOSE i \in dots : TRUE
        valid == /\ lexeme # <<>>
                 /\ \A i \in 1..Len(lexeme) : is_digit(lexeme[i]) \/ lexeme[i] = "."
                 /\ Cardinality(dots) <= 1
                 /\ \A i \in dots : 1 < i /\ i < Len(lexeme)
    IN  IF ~valid THEN [ok |-> FALSE, val |-> VAL_NIL]
        ELSE IF dots = {}
             THEN [ok |-> TRUE, val |-> VAL_NUMBER(Num(DigitsValue(lexeme, 0)))]
        ELSE [ok |-> TRUE,
              val |-> VAL_NUMBER(Norm(
                  DigitsValue(SubSeq(lexeme, 1, dot - 1)
                              \o SubSeq(lexeme, dot + 1, Len(lexeme)), 0),
                  Pow10(Len(lexeme) - dot)))]

\* Compiler::number
number_parsed(c, v) ==
    IF v.ok THEN emit_constant(c, v.val) ELSE [c EXCEPT !.status = "panic"]

number(c) ==
    IF c.parser.previous = NoToken THEN c
    ELSE number_parsed(c, ParseValue(c.parser.previous.message))

\* Compiler::literal
literal(c) ==
    CASE c.parser.previous.token_type = "TOKEN_FALSE" -> emit_byte(c, OP_FALSE)
      [] c.parser.previous.token_type = "TOKEN_TRUE" -> emit_byte(c, OP_TRUE)
      [] c.parser.previous.token_type = "TOKEN_NIL" -> emit_byte(c, OP_NIL)
      [] OTHER -> c

\* Compiler::string with Compiler::clone_string
string(c) ==
    IF c.parser.previous = NoToken THEN c
    ELSE emit_constant(c, VAL_OBJECT(c.parser.previous.message))

\* the `match *operator_type` of Compiler::unary, after the operand
unary_emit(c, operator_type) ==
    CASE operator_type = "TOKEN_MINUS" -> emit_byte(c, OP_NEGATE)
      [] operator_type = "TOKEN_BANG" -> emit_byte(c, OP_NOT)
      [] OTHER -> [c EXCEPT !.status = "panic"]

\* the `match operator_type` of Compiler::binary, after the right operand
binary_emit(c, operator_type) ==
    CASE operator_type = "TOKEN_PLUS" -> emit_byte(c, OP_ADD)
      [] operator_type = "TOKEN_MINUS" -> emit_byte(c, OP_SUBTRACT)
      [] operator_type = "TOKEN_STAR" -> emit_byte(c, OP_MULTIPLY)
      [] operator_type = "TOKEN_SLASH" -> emit_byte(c, OP_DIVIDE)
      [] operator_type = "TOKEN_BANG_EQUAL" -> emit_bytes(c, OP_EQUAL, OP_NOT)
      [] operator_type = "TOKEN_EQUAL_EQUAL" -> emit_byte(c, OP_EQUAL)
      [] operator_type = "TOKEN_GREATER" -> emit_byte(c, OP_GREATER)
      [] operator_type = "TOKEN_GREATER_EQUAL" -> emit_bytes(c, OP_LESS, OP_NOT)
      [] operator_type = "TOKEN_LESS" -> emit_byte(c, OP_LESS)
      [] operator_type = "TOKEN_LESS_EQUAL" -> emit_bytes(c, OP_GREATER, OP_NOT)
      [] OTHER -> [c EXCEPT !.status = "panic"]

(***************************************************************************)
(* The recursive descent of the compiler, one call frame at a time.  kont  *)
(* is the stack of what remains to be done, innermost first: the frames    *)
(* are the points at which parse_precedence, grouping, unary, binary and   *)
(* compile resume after a nested call.                                     *)
(***************************************************************************)
Frame(fn, prec, op) == [fn |-> fn, prec |-> prec, op |-> op]

\* a call of parse_precedence(prec)
PP(prec) == Frame("parse_precedence", prec, "None")

\* the `while let` loop of parse_precedence(prec)
LOOP(prec) == Frame("infix_loop", prec, "None")

\* grouping() after its expression()
GROUPING == Frame("grouping", PREC_NONE, "None")

\* unary() after its operand
UNARY(op) == Frame("unary", PREC_NONE, op)

\* binary() after its right operand
BINARY(op) == Frame("binary", PREC_NONE, op)

\* compile() after its expression()
COMPILE_END == Frame("compile", PREC_NONE, "None")

Step(c, k) == [compiler |-> c, kont |-> k]

\* Compiler::parse_precedence up to its loop: advance, then the prefix rule
\* of the previous token
prefix_rule(c, prefix_fn, precedence, rest) ==
    CASE prefix_fn = "Grouping" ->
            Step(c, <<PP(PREC_ASSIGNMENT), GROUPING, LOOP(precedence)>> \o rest)
      [] prefix_fn = "Unary" ->
            Step(c, <<PP(PREC_UNARY), UNARY(c.parser.previous.token_type),
                      LOOP(precedence)>> \o rest)
      [] prefix_fn = "Number" -> Step(number(c), <<LOOP(precedence)>> \o rest)
      [] prefix_fn = "Literal" -> Step(literal(c), <<LOOP(precedence)>> \o rest)
      [] prefix_fn = "String" -> Step(string(c), <<LOOP(precedence)>> \o rest)
      [] prefix_fn = "Null" -> Step(error(c, "Expected expression."), rest)
      [] OTHER -> Step([c EXCEPT !.status = "panic"], rest)

\* parse_precedence after its advance
parse_prefix(c, precedence, rest) ==
    IF c.status # "ok" THEN Step(c, rest)
    ELSE IF c.parser.previous = NoToken THEN Step(c, <<LOOP(precedence)>> \o rest)
    ELSE prefix_rule(c, from_token_type(c.parser.previous.token_type).prefix,
                     precedence, rest)

parse_precedence(c0, precedence, rest) == parse_prefix(advance(c0), precedence, rest)

\* one turn of the loop of Compiler::parse_precedence: leave it, or advance
\* and apply the infix rule of the token just passed
infix_rule(c, rule, precedence, rest) ==
    CASE rule.infix = "Binary" ->
            IF rule.precedence + 1 > PREC_PRIMARY
            THEN Step([c EXCEPT !.status = "panic"], rest)
            ELSE Step(c, <<PP(rule.precedence + 1),
                           BINARY(c.parser.previous.token_type),
                           LOOP(precedence)>> \o rest)
      [] rule.infix = "Null" -> Step(c, <<LOOP(precedence)>> \o rest)
      [] OTHER -> Step([c EXCEPT !.status = "panic"], rest)

\* the body of that loop after its advance
parse_infix(c, precedence, rest) ==
    IF c.status # "ok" THEN Step(c, rest)
    ELSE infix_rule(c, from_token_type(c.parser.previous.token_type), precedence, rest)

infix_loop(c0, precedence, rest) ==
    IF c0.parser.current = NoToken THEN Step(c0, rest)
    ELSE IF precedence > from_token_type(c0.parser.current.token_type).precedence
         THEN Step(c0, rest)
    ELSE parse_infix(advance(c0), precedence, rest)

\* Compiler::grouping after its expression
grouping_end(c, rest) ==
    Step(consume(c, "TOKEN_RIGHT_PAREN", "Expected ')' after expression."), rest)

\* Compiler::unary after its operand
unary_end(c, operator_type, rest) == Step(unary_emit(c, operator_type), rest)

\* Compiler::binary after its right operand
binary_end(c, operator_type, rest) == Step(binary_emit(c, operator_type), rest)

\* Compiler::compile up to its call of expression (mod.rs:40-46)
compile_begin(c0, source) ==
    Step(advance([c0 EXCEPT !.scanner.source = source,
                            !.parser.had_error = FALSE,
                            !.parser.panic_mode = FALSE]),
         <<PP(PREC_ASSIGNMENT), COMPILE_END>>)

\* Compiler::compile after its expression (mod.rs:47-54): the value
\* returned is ~had_error
emit_return(c) == IF c.status # "ok" THEN c ELSE emit_byte(c, OP_RETURN)

compile_end(c0) == emit_return(consume(c0, "TOKEN_EOF", "Expected end of expression."))

(***************************************************************************)
(* The virtual machine (vm.rs).  A machine value is the record             *)
(* [chunk, ip, stack, sp, reports, status].  stack holds the slots written *)
(* so far; every slot above them still holds None.  reports is what        *)
(* runtime_error has printed; status is "ok" until a panic ("panic") or    *)
(* an error returned with `?` ("error").                                   *)
(***************************************************************************)
\* stack[i]
Slot(stack, i) == IF i < Len(stack) THEN stack[i + 1] ELSE STACK_INIT

\* VM { chunk, ip: 0, stack: init_stack(), sp: 0 }
NewVM(chunk) == [chunk |-> chunk, ip |-> 0, stack |-> <<>>, sp |-> 0]

Machine(v, reports) ==
    [chunk |-> v.chunk, ip |-> v.ip, stack |-> v.stack, sp |-> v.sp,
     reports |-> reports, status |-> "ok"]

\* VM::push: the index panics at MAX_STACK_SIZE
push(m, value) ==
    IF m.status # "ok" THEN m
    ELSE IF m.sp >= MAX_STACK_SIZE THEN [m EXCEPT !.status = "panic"]
    ELSE [m EXCEPT !.stack = IF m.sp < Len(m.stack)
                             THEN [m.stack EXCEPT ![m.sp + 1] = value]
                             ELSE Append(m.stack, value),
                   !.sp = @ + 1]

\* VM::pop: the machine after it and the value it returns; `sp -= 1` at 0
\* and unwrap of None panic
pop(m) ==
    IF m.status # "ok" THEN [m |-> m, value |-> STACK_INIT]
    ELSE IF m.sp = 0 \/ Slot(m.stack, m.sp - 1) = STACK_INIT
         THEN [m |-> [m EXCEPT !.status = "panic"], value |-> STACK_INIT]
    ELSE [m |-> [m EXCEPT !.sp = @ - 1], value |-> Slot(m.stack, m.sp - 1)]

\* VM::read_byte
read_byte(m) ==
    IF m.status # "ok" \/ m.ip >= Len(m.chunk.code)
    THEN [m |-> [m EXCEPT !.status = IF @ = "ok" THEN "panic" ELSE @], byte |-> 0]
    ELSE [m |-> [m EXCEPT !.ip = @ + 1], byte |-> m.chunk.code[m.ip + 1]]

\* VM::read_constant
read_constant(m0) ==
    LET r == read_byte(m0)
    IN  IF r.m.status # "ok" \/ r.byte >= Len(r.m.chunk.constants.values)
        THEN [m |-> [r.m EXCEPT !.status = IF @ = "ok" THEN "panic" ELSE @],
              value |-> STACK_INIT]
        ELSE [m |-> r.m, value |-> r.m.chunk.constants.values[r.byte + 1]]

\* VM::runtime_error: prints the message and the line at ip - sp - 1, and
\* returns to its caller
runtime_error(m, message) ==
    LET instruction == m.ip - m.sp - 1
    IN  IF m.status # "ok" THEN m
        ELSE IF instruction < 0 \/ instruction >= Len(m.chunk.lines)
             THEN [m EXCEPT !.status = "panic"]
        ELSE [m EXCEPT !.reports =
                  Append(@, [message |-> message,
                             line |-> m.chunk.lines[instruction + 1]])]

\* a falsiness in which the number 0 is false as well
is_falsey_zero(value) ==
    \/ ValueEq(value, VAL_NIL)
    \/ ValueEq(value, VAL_BOOL(FALSE))
    \/ ValueEq(value, VAL_NUMBER(Num(0)))

\* VM::is_falsey
is_falsey(value) == ValueEq(value, VAL_NIL) \/ ValueEq(value, VAL_BOOL(FALSE))

\* an equality that looks at the tags only
values_equal_by_tag(a, b) == a.tag = b.tag

\* VM::values_equal
values_equal(a, b) ==
    CASE a.tag = "VAL_BOOL" /\ b.tag = "VAL_BOOL" -> a.b = b.b
      [] a.tag = "VAL_NUMBER" /\ b.tag = "VAL_NUMBER" -> NumEq(a.n, b.n)
      [] a.tag = "VAL_OBJECT" /\ b.tag = "VAL_OBJECT" -> a.s = b.s
      [] a.tag = "VAL_NIL" /\ b.tag = "VAL_NIL" -> TRUE
      [] OTHER -> FALSE

\* the `match op` of VM::binary_op for the four arithmetic operators
Arithmetic(op, a, b) ==
    CASE op = "Add" -> ValueAdd(a, b)
      [] op = "Sub" -> ValueSub(a, b)
      [] op = "Div" -> ValueDiv(a, b)
      [] op = "Mul" -> ValueMul(a, b)

\* `let b = self.pop().clone(); let a = self.pop().clone();`: b is popped
\* first, then a
popped_a(pb, pa) == [m |-> pa.m, a |-> pa.value, b |-> pb.value]

popped_b(pb) == popped_a(pb, pop(pb.m))

pop_b_a(m) == popped_b(pop(m))

\* the `match val` of VM::binary_op
binary_result(m, val) ==
    IF val.ok THEN push(m, VAL_NUMBER(val.val))
    ELSE runtime_error(m, "Value must be a number")

\* VM::binary_op after its two pops
binary_apply(m, op, a, b) ==
    IF m.status # "ok" THEN m
    ELSE CASE op = "Greater" -> push(m, VAL_BOOL(ValueGt(a, b)))
           [] op = "Less" -> push(m, VAL_BOOL(ValueLt(a, b)))
           [] OTHER -> binary_result(m, Arithmetic(op, a, b))

binary_popped(p, op) == binary_apply(p.m, op, p.a, p.b)

\* VM::binary_op
binary_op(m0, op) == binary_popped(pop_b_a(m0), op)

\* VM::peek_at: &self.stack[self.sp - at]; the index panics out of range
PeekInRange(m, at) == m.sp - at >= 0 /\ m.sp - at < MAX_STACK_SIZE

peek_at(m, at) == Slot(m.stack, m.sp - at)

\* VM::concatenate: the string pushed is a.to_string(); the local copy that
\* push_str extends is dropped
concatenate_popped(p) ==
    IF p.m.status # "ok" THEN p.m
    ELSE IF ~(IsString(p.a) /\ IsString(p.b)) THEN [p.m EXCEPT !.status = "panic"]
    ELSE push(p.m, VAL_OBJECT(ValueToString(p.a)))

concatenate(m0) == concatenate_popped(pop_b_a(m0))

\* the OP_ADD arm of VM::run (vm.rs:100-118)
op_add(m) ==
    LET a == peek_at(m, 0)
        b == peek_at(m, 1)
        m1 == IF ~PeekInRange(m, 0) THEN [m EXCEPT !.status = "panic"]
              ELSE IF a = STACK_INIT THEN m
              ELSE IF ~PeekInRange(m, 1) THEN [m EXCEPT !.status = "panic"]
              ELSE IF b = STACK_INIT THEN m
              ELSE IF IsString(a) /\ IsString(b) THEN concatenate(m)
              ELSE runtime_error(m, "Operands must be either addable or concatenatable.")
    IN  binary_op(m1, "Add")

\* the OP_NEGATE arm: `?` returns the error of Neg from run
op_negate(m0) ==
    LET p == pop(m0)
        r == ValueNeg(p.value)
    IN  IF p.m.status # "ok" THEN p.m
        ELSE IF r.ok THEN push(p.m, r.val)
        ELSE [p.m EXCEPT !.status = "error"]

\* the OP_EQUAL arm
equal_popped(p) ==
    IF p.m.status # "ok" THEN p.m ELSE push(p.m, VAL_BOOL(values_equal(p.a, p.b)))

op_equal(m0) == equal_popped(pop_b_a(m0))

\* the OP_NOT arm
op_not(m0) ==
    LET p == pop(m0)
    IN  IF p.m.status # "ok" THEN p.m
        ELSE push(p.m, VAL_BOOL(is_falsey(p.value)))

\* the OP_CONSTANT arm
op_constant(m0) ==
    LET r == read_constant(m0)
    IN  push(r.m, r.value)

(***************************************************************************)
(* Inputs.  An expression is a tuple: <<"lit", kind, text>> with the       *)
(* lexeme of the literal, <<"un", op, e>>, <<"bin", op, l, r>> or          *)
(* <<"group", e>> for a parenthesised expression.                          *)
(***************************************************************************)
Lit(kind, text) == <<"lit", kind, text>>

Un(op, e) == <<"un", op, e>>

Bin(op, l, r) == <<"bin", op, l, r>>

Group(e) == <<"group", e>>

UnaryOps == {"-", "!"}

ArithOps == {"+", "-", "*", "/"}

BinaryOps == ArithOps \cup {"==", "!=", "<", "<=", ">", ">="}

\* the operators that are one instruction of the machine
MachineBinaryOps == ArithOps \cup {"==", "<", ">"}

\* the literals of the expressions that are compiled from text
SourceLeaves == {Lit("number", <<"1">>), Lit("number", <<"2">>), Lit("nil", <<"n", "i", "l">>)}

\* the literals of the expressions whose chunk is written by hand
ChunkLeaves ==
    {Lit("number", <<"1">>), Lit("number", <<"2">>),
     Lit("true", <<"t", "r", "u", "e">>), Lit("false", <<"f", "a", "l", "s", "e">>),
     Lit("nil", <<"n", "i", "l">>),
     Lit("string", <<"\"", "a", "\"">>)}

\* the expressions over `leaves` with exactly k operators
RECURSIVE ExprsOf(_, _, _, _)
ExprsOf(leaves, unops, binops, k) ==
    IF k = 0 THEN leaves
    ELSE {Un(op, e) : op \in unops, e \in ExprsOf(leaves, unops, binops, k - 1)}
         \cup UNION {{Bin(op, l, r) : op \in binops,
                                      l \in ExprsOf(leaves, unops, binops, i),
                                      r \in ExprsOf(leaves, unops, binops, k - 1 - i)}
                     : i \in 0..(k - 1)}

ExprsUpTo(leaves, unops, binops, n) ==
    UNION {ExprsOf(leaves, unops, binops, k) : k \in 0..n}

N(text) == Lit("number", text)

S(text) == Lit("string", <<"\"">> \o text \o <<"\"">>)

\* -54.55 * (2.0 + 6)                    (compiler/mod.rs:271)
TestNumberOrder ==
    Bin("*", Un("-", N(<<"5", "4", ".", "5", "5">>)),
             Group(Bin("+", N(<<"2", ".", "0">>), N(<<"6">>))))

\* !(5 - 4 > 3 * 2 == !nil)              (compiler/mod.rs:295)
TestBoolean ==
    Un("!", Group(Bin("==", Bin(">", Bin("-", N(<<"5">>), N(<<"4">>)),
                                     Bin("*", N(<<"3">>), N(<<"2">>))),
                            Un("!", Lit("nil", <<"n", "i", "l">>)))))

\* "test" == "test"                      (compiler/mod.rs:324)
TestStringAssert == Bin("==", S(<<"t", "e", "s", "t">>), S(<<"t", "e", "s", "t">>))

\* "st" + "ri" + "ng"                    (compiler/mod.rs:346)
TestStringConcatenation ==
    Bin("+", Bin("+", S(<<"s", "t">>), S(<<"r", "i">>)), S(<<"n", "g">>))

\* -((1.1 + 3.3) / 2)                    (vm.rs:236-251)
TestBinaryOperands ==
    Un("-", Bin("/", Bin("+", N(<<"1", ".", "1">>), N(<<"3", ".", "3">>)), N(<<"2">>)))

TestExprs ==
    {TestNumberOrder, TestBoolean, TestStringAssert, TestStringConcatenation,
     TestBinaryOperands,
     Bin("+", N(<<"1">>), Bin("*", N(<<"2">>), N(<<"3">>))),
     Bin("-", S(<<"a">>), N(<<"1">>)),
     Bin("*", Lit("true", <<"t", "r", "u", "e">>), N(<<"2">>)),
     Un("!", N(<<"0">>)),
     Un("!", S(<<>>)),
     Bin("==", S(<<>>), Lit("nil", <<"n", "i", "l">>)),
     Bin("==", N(<<"0">>), Lit("false", <<"f", "a", "l", "s", "e">>))}

\* the expressions that are compiled from their text
SourceExprs == ExprsUpTo(SourceLeaves, UnaryOps, BinaryOps, MaxOps) \cup TestExprs

\* the expressions whose chunk is written by hand
ChunkExprs == ExprsUpTo(ChunkLeaves, UnaryOps, MachineBinaryOps, MaxOps) \cup TestExprs

\* how tightly an operator binds, as the language defines it
BindingPower(op) ==
    CASE op \in {"==", "!="} -> PREC_EQUALITY
      [] op \in {"<", "<=", ">", ">="} -> PREC_COMPARISON
      [] op \in {"+", "-"} -> PREC_TERM
      [] op \in {"*", "/"} -> PREC_FACTOR

\* the characters of an operator
OpText(op) ==
    CASE op = "==" -> <<"=", "=">>
      [] op = "!=" -> <<"!", "=">>
      [] op = "<=" -> <<"<", "=">>
      [] op = ">=" -> <<">", "=">>
      [] OTHER -> <<op>>

\* the text of an expression; an operand that binds less tightly than its
\* place asks for is parenthesised
RECURSIVE RenderAt(_, _)
RenderAt(e, min) ==
    CASE e[1] = "lit" -> e[3]
      [] e[1] = "group" -> <<"(">> \o RenderAt(e[2], PREC_ASSIGNMENT) \o <<")">>
      [] e[1] = "un" -> <<e[2]>> \o RenderAt(e[3], PREC_UNARY)
      [] e[1] = "bin" ->
           LET p == BindingPower(e[2])
               text == RenderAt(e[3], p) \o OpText(e[2]) \o RenderAt(e[4], p + 1)
           IN  IF p < min THEN <<"(">> \o text \o <<")">> ELSE text

Render(e) == RenderAt(e, PREC_ASSIGNMENT)

\* the value of a literal
LitValue(e) ==
    CASE e[2] = "number" -> ParseValue(e[3]).val
      [] e[2] = "string" -> VAL_OBJECT(SubSeq(e[3], 2, Len(e[3]) - 1))
      [] e[2] = "true" -> VAL_BOOL(TRUE)
      [] e[2] = "false" -> VAL_BOOL(FALSE)
      [] e[2] = "nil" -> VAL_NIL

\* the instructions of a binary and of a unary operator
BinaryCode(op) ==
    CASE op = "+" -> <<OP_ADD>>
      [] op = "-" -> <<OP_SUBTRACT>>
      [] op = "*" -> <<OP_MULTIPLY>>
      [] op = "/" -> <<OP_DIVIDE>>
      [] op = "==" -> <<OP_EQUAL>>
      [] op = "!=" -> <<OP_EQUAL, OP_NOT>>
      [] op = ">" -> <<OP_GREATER>>
      [] op = ">=" -> <<OP_LESS, OP_NOT>>
      [] op = "<" -> <<OP_LESS>>
      [] op = "<=" -> <<OP_GREATER, OP_NOT>>

UnaryCode(op) == IF op = "-" THEN <<OP_NEGATE>> ELSE <<OP_NOT>>

\* Chunk::write of each byte of `bytes`, all on one line
RECURSIVE WriteAll(_, _, _)
WriteAll(chunk, bytes, line) ==
    IF bytes = <<>> THEN chunk
    ELSE WriteAll(ChunkWrite(chunk, Head(bytes), line), Tail(bytes), line)

\* a chunk extended by the postfix encoding of e, written the way
\* tests::binary_operands_should_succeed writes it: add_constant and
\* write(OP_CONSTANT), write(index as u8) for a number or a string, one
\* write for every other instruction
RECURSIVE WriteExpr(_, _, _)
WriteExpr(chunk, e, line) ==
    CASE e[1] = "lit" ->
           (CASE e[2] \in {"number", "string"} ->
                   LET r == AddConstant(chunk, LitValue(e))
                   IN  WriteAll(r.chunk, <<OP_CONSTANT, r.index % U8_RANGE>>, line)
              [] e[2] = "true" -> ChunkWrite(chunk, OP_TRUE, line)
              [] e[2] = "false" -> ChunkWrite(chunk, OP_FALSE, line)
              [] e[2] = "nil" -> ChunkWrite(chunk, OP_NIL, line))
      [] e[1] = "group" -> WriteExpr(chunk, e[2], line)
      [] e[1] = "un" -> WriteAll(WriteExpr(chunk, e[3], line), UnaryCode(e[2]), line)
      [] e[1] = "bin" ->
           WriteAll(WriteExpr(WriteExpr(chunk, e[3], line), e[4], line),
                    BinaryCode(e[2]), line)

\* the line number the tests give every byte (vm.rs:237)
TEST_LINE == 123

\* the chunk of e followed by OP_RETURN
ExprChunk(e) == ChunkWrite(WriteExpr(EmptyChunk, e, TEST_LINE), OP_RETURN, TEST_LINE)

\* is e built from numbers, + - * / and unary - only
RECURSIVE IsNumeric(_)
IsNumeric(e) ==
    CASE e[1] = "lit" -> e[2] = "number"
      [] e[1] = "group" -> IsNumeric(e[2])
      [] e[1] = "un" -> e[2] = "-" /\ IsNumeric(e[3])
      [] e[1] = "bin" -> e[2] \in ArithOps /\ IsNumeric(e[3]) /\ IsNumeric(e[4])

\* the number a numeric expression denotes: the left operand of an
\* operator is the operand written first
RECURSIVE NumericValue(_)
NumericValue(e) ==
    CASE e[1] = "lit" -> ParseValue(e[3]).val.n
      [] e[1] = "group" -> NumericValue(e[2])
      [] e[1] = "un" -> NumNeg(NumericValue(e[3]))
      [] e[1] = "bin" ->
           LET l == NumericValue(e[3])
               r == NumericValue(e[4])
           IN  CASE e[2] = "+" -> NumAdd(l, r)
                 [] e[2] = "-" -> NumSub(l, r)
                 [] e[2] = "*" -> NumMul(l, r)
                 [] e[2] = "/" -> NumDiv(l, r)

\* the characters of the source texts that are enumerated exhaustively
Alphabet == {"1", "+", "-", "*", "/", "(", ")", " ", "!", "\"", "@"}

RawSources == UNION {[1..k -> Alphabet] : k \in 0..MaxSrcLen}

\* 1+1+...+1 with MAX_STACK_SIZE + 1 literals: one more number than a
\* one-byte constant index can tell apart
LongSum == [i \in 1..(2 * MAX_STACK_SIZE + 1) |-> IF i % 2 = 1 THEN "1" ELSE "+"]

\* 1+(1+(...+(1+1)...)) with MAX_STACK_SIZE + 1 literals: all of them are
\* on the operand stack before the first OP_ADD
DeepSum ==
    [i \in 1..(4 * MAX_STACK_SIZE + 1) |->
        IF i <= 3 * MAX_STACK_SIZE
        THEN (CASE i % 3 = 1 -> "1" [] i % 3 = 2 -> "+" [] OTHER -> "(")
        ELSE IF i = 3 * MAX_STACK_SIZE + 1 THEN "1" ELSE ")"]

\* the chunk of DeepSum, written by hand
DeepChunk ==
    LET n == MAX_STACK_SIZE + 1
        code == [i \in 1..(3 * n) |->
                    IF i <= 2 * n
                    THEN (IF i % 2 = 1 THEN OP_CONSTANT ELSE ((i \div 2) - 1) % U8_RANGE)
                    ELSE IF i < 3 * n THEN OP_ADD ELSE OP_RETURN]
    IN  [code |-> code, count |-> 3 * n, lines |-> [i \in 1..(3 * n) |-> TEST_LINE],
         constants |-> [count |-> n, values |-> [i \in 1..n |-> VAL_NUMBER(Num(1))]]]

\* a number and a `//` comment: the comment ends the source, or a line
\* feed ends the comment
CommentSources ==
    {<<"1", "/", "/", "c">>,
     <<"1", "/", "/", "\n">>,
     <<"1", "/", "/", "c", "\n">>,
     <<"/", "/", "c", "\n", "1">>}

\* a sum whose closing parenthesis is on the second line, so that OP_ADD is
\* written with line 2 and every byte before it with line 1
TwoLineSum == <<"1", "+", "(", "2", "*", "3", "\n", ")">>

Input(kind, source, expr) == [kind |-> kind, source |-> source, expr |-> expr]

NoInput == Input("none", <<>>, <<>>)

\* what VM::interpret is called with
SourceInputs ==
    {Input("text", src, <<>>) :
        src \in RawSources \cup CommentSources \cup {LongSum, DeepSum, TwoLineSum}}
    \cup {Input("expr", Render(e), e) : e \in SourceExprs}

\* what a VM is built on directly, as in tests::binary_operands_should_succeed
ChunkInputs ==
    {Input("chunk", <<>>, e) : e \in ChunkExprs} \cup {Input("deep_chunk", <<>>, <<>>)}

InputChunk(i) == IF i.kind = "deep_chunk" THEN DeepChunk ELSE ExprChunk(i.expr)

(***************************************************************************)
(* State                                                                   *)
(***************************************************************************)
VARIABLES
    phase,      \* "idle", "scanning", "compiling", "compiled", "running" or "done"
    input,      \* what the call was given
    compiler,   \* the Compiler with its parser, scanner and chunk
    kont,       \* the call frames of the compiler still to resume
    vm,         \* the VM: chunk, ip, stack, sp
    reports,    \* what VM::runtime_error has printed
    result,     \* how the call ended: "none" while it has not
    lexer,      \* a Scanner that is called directly, as in scanner.rs tests
    scanned,    \* what the scan_token calls on `lexer` did, oldest first
    returned    \* the compile calls one Compiler has returned from

vars == <<phase, input, compiler, kont, vm, reports, result, lexer, scanned, returned>>

Init ==
    /\ phase = "idle"
    /\ input = NoInput
    /\ compiler = NewCompiler(EmptyChunk)
    /\ kont = <<>>
    /\ vm = NewVM(EmptyChunk)
    /\ reports = <<>>
    /\ result = "none"
    /\ lexer = NewScanner(<<>>)
    /\ scanned = <<>>
    /\ returned = <<>>

(***************************************************************************)
(* VM::interpret and the compiler                                          *)
(***************************************************************************)
\* a step of the compiler: a panic or an endless loop ends the call
CompilerStep(r) ==
    /\ compiler' = r.compiler
    /\ IF r.compiler.status = "ok"
       THEN /\ kont' = r.kont
            /\ phase' = "compiling"
            /\ result' = "none"
       ELSE /\ kont' = <<>>
            /\ phase' = "done"
            /\ result' = r.compiler.status
    /\ UNCHANGED <<input, vm, reports, lexer, scanned, returned>>

\* VM::interpret (vm.rs:29-32) into Compiler::compile (mod.rs:39-46)
Interpret ==
    /\ phase = "idle"
    /\ \E i \in SourceInputs :
          /\ compiler' = compile_begin(NewCompiler(EmptyChunk), i.source).compiler
          /\ kont' = IF compiler'.status = "ok" THEN <<PP(PREC_ASSIGNMENT), COMPILE_END>>
                     ELSE <<>>
          /\ phase' = IF compiler'.status = "ok" THEN "compiling" ELSE "done"
          /\ result' = IF compiler'.status = "ok" THEN "none" ELSE compiler'.status
          /\ input' = i
    /\ UNCHANGED <<vm, reports, lexer, scanned, returned>>

ParsePrecedence ==
    /\ phase = "compiling"
    /\ Head(kont).fn = "parse_precedence"
    /\ CompilerStep(parse_precedence(compiler, Head(kont).prec, Tail(kont)))

InfixLoop ==
    /\ phase = "compiling"
    /\ Head(kont).fn = "infix_loop"
    /\ CompilerStep(infix_loop(compiler, Head(kont).prec, Tail(kont)))

GroupingEnd ==
    /\ phase = "compiling"
    /\ Head(kont).fn = "grouping"
    /\ CompilerStep(grouping_end(compiler, Tail(kont)))

UnaryEnd ==
    /\ phase = "compiling"
    /\ Head(kont).fn = "unary"
    /\ CompilerStep(unary_end(compiler, Head(kont).op, Tail(kont)))

BinaryEnd ==
    /\ phase = "compiling"
    /\ Head(kont).fn = "binary"
    /\ CompilerStep(binary_end(compiler, Head(kont).op, Tail(kont)))

\* the end of Compiler::compile
CompileEnd ==
    /\ phase = "compiling"
    /\ Head(kont).fn = "compile"
    /\ compiler' = compile_end(compiler)
    /\ kont' = <<>>
    /\ phase' = IF compiler'.status = "ok" THEN "compiled" ELSE "done"
    /\ result' = IF compiler'.status = "ok" THEN "none" ELSE compiler'.status
    /\ UNCHANGED <<input, vm, reports, lexer, scanned, returned>>

\* the value Compiler::compile returns
CompileResult(c) == ~c.parser.had_error

\* what VM::interpret does with the value compile returned (vm.rs:34-44):
\* "COMPILE_ERROR" ends the call, "none" has the VM built and run
interpret_compiled_unchecked(ok) == "none"

interpret_compiled(ok) == IF ~ok THEN "COMPILE_ERROR" ELSE "none"

InterpretCompiled ==
    /\ phase = "compiled"
    /\ result' = interpret_compiled(CompileResult(compiler))
    /\ IF result' = "none"
       THEN phase' = "running" /\ vm' = NewVM(compiler.chunk)
       ELSE phase' = "done" /\ vm' = vm
    /\ UNCHANGED <<input, compiler, kont, reports, lexer, scanned, returned>>

\* a VM built on a chunk written by hand (vm.rs:255-263)
RunChunk ==
    /\ phase = "idle"
    /\ \E i \in ChunkInputs :
          /\ input' = i
          /\ vm' = NewVM(InputChunk(i))
    /\ phase' = "running"
    /\ UNCHANGED <<compiler, kont, reports, result, lexer, scanned, returned>>

(***************************************************************************)
(* VM::run, one instruction at a time                                      *)
(***************************************************************************)
\* the byte read_instruction will fetch
NextOpcode == IF vm.ip < Len(vm.chunk.code) THEN vm.chunk.code[vm.ip + 1] ELSE -1

\* the machine after read_instruction (vm.rs:71, 129-139)
Fetched == [Machine(vm, reports) EXCEPT !.ip = @ + 1]

\* the state after an instruction: run goes on, or it ends with a panic or
\* with the error `?` returned
Executed(m) ==
    /\ vm' = [chunk |-> m.chunk, ip |-> m.ip, stack |-> m.stack, sp |-> m.sp]
    /\ reports' = m.reports
    /\ IF m.status = "ok"
       THEN phase' = "running" /\ result' = "none"
       ELSE phase' = "done" /\ result' = m.status
    /\ UNCHANGED <<input, compiler, kont, lexer, scanned, returned>>

OpConstant == phase = "running" /\ NextOpcode = OP_CONSTANT /\ Executed(op_constant(Fetched))

OpNegate == phase = "running" /\ NextOpcode = OP_NEGATE /\ Executed(op_negate(Fetched))

OpTrue == phase = "running" /\ NextOpcode = OP_TRUE /\ Executed(push(Fetched, VAL_BOOL(TRUE)))

OpFalse == phase = "running" /\ NextOpcode = OP_FALSE /\ Executed(push(Fetched, VAL_BOOL(FALSE)))

OpNil == phase = "running" /\ NextOpcode = OP_NIL /\ Executed(push(Fetched, VAL_NIL))

OpEqual == phase = "running" /\ NextOpcode = OP_EQUAL /\ Executed(op_equal(Fetched))

OpGreater == phase = "running" /\ NextOpcode = OP_GREATER /\ Executed(binary_op(Fetched, "Greater"))

OpLess == phase = "running" /\ NextOpcode = OP_LESS /\ Executed(binary_op(Fetched, "Less"))

OpNot == phase = "running" /\ NextOpcode = OP_NOT /\ Executed(op_not(Fetched))

OpAdd == phase = "running" /\ NextOpcode = OP_ADD /\ Executed(op_add(Fetched))

OpSubtract == phase = "running" /\ NextOpcode = OP_SUBTRACT /\ Executed(binary_op(Fetched, "Sub"))

OpMultiply == phase = "running" /\ NextOpcode = OP_MULTIPLY /\ Executed(binary_op(Fetched, "Mul"))

OpDivide == phase = "running" /\ NextOpcode = OP_DIVIDE /\ Executed(binary_op(Fetched, "Div"))

\* OP_RETURN: run returns Ok(())
OpReturn ==
    /\ phase = "running"
    /\ NextOpcode = OP_RETURN
    /\ vm' = [vm EXCEPT !.ip = @ + 1]
    /\ phase' = "done"
    /\ result' = "Ok"
    /\ UNCHANGED <<input, compiler, kont, reports, lexer, scanned, returned>>

Run ==
    \/ OpConstant \/ OpNegate \/ OpTrue \/ OpFalse \/ OpNil \/ OpEqual
    \/ OpGreater \/ OpLess \/ OpNot \/ OpAdd \/ OpSubtract \/ OpMultiply
    \/ OpDivide \/ OpReturn

Next ==
    \/ Interpret \/ ParsePrecedence \/ InfixLoop \/ GroupingEnd \/ UnaryEnd
    \/ BinaryEnd \/ CompileEnd \/ InterpretCompiled \/ RunChunk \/ Run

Spec == Init /\ [][Next]_vars

(***************************************************************************)
(* Properties                                                              *)
(***************************************************************************)
\* the k-th value from the top of the operand stack, 0 being the top
StackTop(k) == Slot(vm.stack, vm.sp - 1 - k)

\* the top of the operand stack after the step
NextTop == Slot(vm'.stack, vm'.sp - 1)

\* the run is about to execute an instruction whose opcode is in `ops`
Executing(ops) == phase = "running" /\ NextOpcode \in ops

\* the step ends the call with the RuntimeError outcome
ReturnsRuntimeError == phase' = "done" /\ result' = "RUNTIME_ERROR"

\* an arithmetic instruction meets two operands that are not both numbers
\* and, for OP_ADD, not both strings
MismatchedArithmetic ==
    /\ Executing({OP_ADD, OP_SUBTRACT, OP_MULTIPLY, OP_DIVIDE})
    /\ vm.sp >= 2
    /\ ~(IsNumber(StackTop(0)) /\ IsNumber(StackTop(1)))
    /\ ~(NextOpcode = OP_ADD /\ IsString(StackTop(0)) /\ IsString(StackTop(1)))

\* C1: an arithmetic instruction on an operand that is not a number ends
\* the call with RuntimeError and pushes no number
C1_MismatchedArithmeticIsRuntimeError ==
    [][MismatchedArithmetic =>
          /\ ReturnsRuntimeError
          /\ ~(vm'.sp = vm.sp - 1 /\ IsNumber(NextTop))]_vars

\* OP_ADD meets two strings
AddingStrings ==
    /\ Executing({OP_ADD})
    /\ vm.sp >= 2
    /\ IsString(StackTop(0))
    /\ IsString(StackTop(1))

\* C2: OP_ADD on two strings replaces them by the earlier one followed by
\* the later one and raises no error, and "st" + "ri" + "ng" leaves the
\* single value "string"
C2_AddConcatenatesStrings ==
    /\ [][AddingStrings =>
             /\ phase' = "running"
             /\ reports' = reports
             /\ vm'.sp = vm.sp - 1
             /\ NextTop = VAL_OBJECT(StackTop(1).s \o StackTop(0).s)]_vars
    /\ [](input.kind = "chunk" /\ input.expr = TestStringConcatenation /\ phase = "done"
            => /\ result = "Ok"
               /\ vm.sp = 1
               /\ Slot(vm.stack, 0) = VAL_OBJECT(<<"s", "t", "r", "i", "n", "g">>))

\* compile has returned, or has ended the call
Compiled == phase \in {"compiled", "running", "done"} /\ input.kind \in {"text", "expr"}

\* C3: the text of every expression compiles, and to the postfix encoding
\* of the expression followed by OP_RETURN
C3_CompilesToPostfix ==
    Compiled /\ input.kind = "expr" =>
        /\ compiler.status = "ok"
        /\ CompileResult(compiler)
        /\ compiler.chunk.code = ExprChunk(input.expr).code

\* run has returned with one value v on the stack and ip past OP_RETURN
StoppedWith(v) ==
    /\ result = "Ok"
    /\ vm.sp = 1
    /\ Slot(vm.stack, 0) = v
    /\ vm.ip = Len(vm.chunk.code)

\* C4: the chunk of a numeric expression runs to OP_RETURN and leaves the
\* value of the expression as the only value on the stack
C4_NumericChunkLeavesValue ==
    /\ input.kind = "chunk" /\ phase = "done" /\ IsNumeric(input.expr)
          => StoppedWith(VAL_NUMBER(NumericValue(input.expr)))
    /\ input.kind = "deep_chunk" /\ phase = "done"
          => StoppedWith(VAL_NUMBER(Num(MAX_STACK_SIZE + 1)))

\* The tokens of a text over Alphabet as the language defines them: blanks
\* and `//` comments separate tokens, a string runs to its closing quote,
\* and what is no token is an "error".
RECURSIVE RefLex(_, _)
RefLex(src, i) ==
    IF i > Len(src) THEN <<>>
    ELSE CASE src[i] = " " -> RefLex(src, i + 1)
           [] is_digit(src[i]) ->
                <<"number">> \o RefLex(src, i + DigitRun(src, i - 1))
           [] src[i] = "/" /\ i < Len(src) /\ src[i + 1] = "/" ->
                IF \E j \in (i + 2)..Len(src) : src[j] = "\n"
                THEN RefLex(src, CHOOSE j \in (i + 2)..Len(src) :
                                    /\ src[j] = "\n"
                                    /\ \A k \in (i + 2)..(j - 1) : src[k] # "\n")
                ELSE <<>>
           [] src[i] = "\"" ->
                IF \E j \in (i + 1)..Len(src) : src[j] = "\""
                THEN <<"string">> \o
                     RefLex(src, 1 + CHOOSE j \in (i + 1)..Len(src) :
                                        /\ src[j] = "\""
                                        /\ \A k \in (i + 1)..(j - 1) : src[k] # "\"")
                ELSE <<"error">>
           [] src[i] \in {"+", "-", "*", "/", "(", ")", "!"} ->
                <<src[i]>> \o RefLex(src, i + 1)
           [] OTHER -> <<"error">> \o RefLex(src, i + 1)

\* The grammar: expression = unary (operator unary)*, unary = ("-" | "!")*
\* primary, primary = number | string | "(" expression ")".  Each of these
\* is the index after the phrase that starts at token i, or 0 when there
\* is none.
RECURSIVE RefUnary(_, _), RefOperands(_, _), RefExpression(_, _)
RefClosed(t, j) == IF j # 0 /\ j <= Len(t) /\ t[j] = ")" THEN j + 1 ELSE 0

RefUnary(t, i) ==
    IF i > Len(t) THEN 0
    ELSE CASE t[i] \in {"-", "!"} -> RefUnary(t, i + 1)
           [] t[i] \in {"number", "string"} -> i + 1
           [] t[i] = "(" -> RefClosed(t, RefExpression(t, i + 1))
           [] OTHER -> 0

RefOperands(t, i) ==
    IF i = 0 THEN 0
    ELSE IF i <= Len(t) /\ t[i] \in {"+", "-", "*", "/"}
         THEN RefOperands(t, RefUnary(t, i + 1))
    ELSE i

RefExpression(t, i) == RefOperands(t, RefUnary(t, i))

RefParses(t) == (\A i \in 1..Len(t) : t[i] # "error") /\ RefExpression(t, 1) = Len(t) + 1

\* is the text one expression of the language and nothing else
WellFormed(src) == RefParses(RefLex(src, 1))

\* C5: compile returns true exactly when the source is one well-formed
\* expression followed by the end of the input
C5_CompilesExactlyWellFormed ==
    /\ Compiled /\ input.kind = "text" /\ Len(input.source) <= MaxSrcLen + 1
          => /\ compiler.status = "ok"
             /\ CompileResult(compiler) <=> WellFormed(input.source)
    /\ Compiled /\ input.kind = "expr"
          => compiler.status = "ok" /\ CompileResult(compiler)

\* C6: when compile returns false the call ends with CompileError and the
\* machine is never started: nothing is fetched, pushed or popped
C6_CompileErrorBeforeExecution ==
    Compiled /\ compiler.status = "ok" /\ ~CompileResult(compiler) =>
        /\ phase # "running"
        /\ phase = "done" => result = "COMPILE_ERROR"
        /\ vm = NewVM(EmptyChunk)
        /\ reports = <<>>

\* a call whose compile failed has returned
C6_Witness ==
    /\ phase = "done"
    /\ result = "COMPILE_ERROR"
    /\ input.source = <<"1", "@">>
    /\ compiler.parser.had_error

\* C7: more than 256 literals make compile return false, and the operand
\* written after OP_CONSTANT is the index of the constant just added
C7_ConstantPoolLimit ==
    /\ [](Compiled /\ compiler.chunk.constants.count > U8_RANGE
            => ~CompileResult(compiler))
    /\ [][compiler'.chunk.constants.count = compiler.chunk.constants.count + 1
            => compiler'.chunk.code[Len(compiler'.chunk.code)]
                  = compiler.chunk.constants.count]_vars

\* C8: a push onto a full stack is a runtime error that ends the call with
\* RuntimeError, and sp and the slots written stay within the 256 slots
C8_StackOverflowIsRuntimeError ==
    /\ [][Executing({OP_CONSTANT, OP_TRUE, OP_FALSE, OP_NIL}) /\ vm.sp = MAX_STACK_SIZE
            => ReturnsRuntimeError /\ Len(reports') > Len(reports)]_vars
    /\ [](vm.sp <= MAX_STACK_SIZE /\ Len(vm.stack) <= MAX_STACK_SIZE)

\* C9: OP_GREATER and OP_LESS push the comparison of two numbers, and on
\* any other operand raise a runtime error and push no boolean
C9_ComparisonRequiresNumbers ==
    [][Executing({OP_GREATER, OP_LESS}) /\ vm.sp >= 2 =>
          IF IsNumber(StackTop(0)) /\ IsNumber(StackTop(1))
          THEN /\ phase' = "running"
               /\ vm'.sp = vm.sp - 1
               /\ NextTop = VAL_BOOL(IF NextOpcode = OP_LESS
                                     THEN NumLess(StackTop(1).n, StackTop(0).n)
                                     ELSE NumLess(StackTop(0).n, StackTop(1).n))
          ELSE /\ Len(reports') > Len(reports) \/ ReturnsRuntimeError
               /\ ~(vm'.sp = vm.sp - 1 /\ NextTop.tag = "VAL_BOOL")]_vars

\* C10: OP_NEGATE replaces a number by its negation, and on any other
\* value reports a runtime error with the line of the instruction and ends
\* the call with RuntimeError
C10_NegateRequiresNumber ==
    [][Executing({OP_NEGATE}) /\ vm.sp >= 1 =>
          IF IsNumber(StackTop(0))
          THEN /\ phase' = "running"
               /\ vm'.sp = vm.sp
               /\ NextTop = VAL_NUMBER(NumNeg(StackTop(0).n))
          ELSE /\ ReturnsRuntimeError
               /\ Len(reports') = Len(reports) + 1
               /\ reports'[Len(reports')].line = vm.chunk.lines[vm.ip + 1]]_vars

\* C11: OP_NOT never reports an error: it replaces the top of the stack by
\* Bool(true) exactly when that value is Nil or Bool(false), and by
\* Bool(false) for every other value, the number 0 and the empty string
\* included
C11_NotIsFalsiness ==
    [][Executing({OP_NOT}) /\ vm.sp >= 1 =>
          /\ phase' = "running"
          /\ result' = "none"
          /\ reports' = reports
          /\ vm'.sp = vm.sp
          /\ NextTop = VAL_BOOL(StackTop(0).tag = "VAL_NIL"
                                \/ (StackTop(0).tag = "VAL_BOOL" /\ ~StackTop(0).b))]_vars

\* OP_NOT has turned the number 0 into Bool(false)
C11_Witness ==
    /\ input.kind = "chunk"
    /\ input.expr = Un("!", N(<<"0">>))
    /\ phase = "running"
    /\ vm.ip = 3
    /\ vm.sp = 1
    /\ StackTop(0) = VAL_BOOL(FALSE)

\* two values have the same tag and the same content
SameValue(a, b) ==
    /\ a.tag = b.tag
    /\ a.tag = "VAL_BOOL" => a.b = b.b
    /\ a.tag = "VAL_NUMBER" => a.n = b.n
    /\ a.tag = "VAL_OBJECT" => a.s = b.s

C13_CompileAndRunTerminate == result # "hang"

(***************************************************************************)
(* A Scanner called directly, as the tests of compiler/scanner.rs do       *)
(***************************************************************************)
\* the longest source over LexAlphabet
MaxLexLen == 3

\* the most scan_token calls made on one Scanner
MaxScans == 6

\* the reserved words (scanner.rs:242-271) with their token types
ReservedWords ==
    {<<<<"a", "n", "d">>, "TOKEN_AND">>,
     <<<<"c", "l", "a", "s", "s">>, "TOKEN_CLASS">>,
     <<<<"e", "l", "s", "e">>, "TOKEN_ELSE">>,
     <<<<"f", "a", "l", "s", "e">>, "TOKEN_FALSE">>,
     <<<<"f", "o", "r">>, "TOKEN_FOR">>,
     <<<<"f", "u", "n">>, "TOKEN_FUN">>,
     <<<<"i", "f">>, "TOKEN_IF">>,
     <<<<"n", "i", "l">>, "TOKEN_NIL">>,
     <<<<"o", "r">>, "TOKEN_OR">>,
     <<<<"p", "r", "i", "n", "t">>, "TOKEN_PRINT">>,
     <<<<"r", "e", "t", "u", "r", "n">>, "TOKEN_RETURN">>,
     <<<<"s", "u", "p", "e", "r">>, "TOKEN_SUPER">>,
     <<<<"t", "h", "i", "s">>, "TOKEN_THIS">>,
     <<<<"t", "r", "u", "e">>, "TOKEN_TRUE">>,
     <<<<"v", "a", "r">>, "TOKEN_VAR">>,
     <<<<"w", "h", "i", "l", "e">>, "TOKEN_WHILE">>}

LexAlphabet == {"1", ".", "/", " ", "\n", "!", "=", "<", "o", "r", "x"}

\* the sources of the tests of scanner.rs (327-388), the reserved words,
\* and words and operators that LexAlphabet does not spell
WrittenSources ==
    {rw[1] : rw \in ReservedWords}
    \cup {<<"v", "a", "r", " ", "x", " ", "=", " ", "5">>,
          <<"v", "a", "r", " ", "x", " ", "=", " ", "\"", "s", "t", "r", "i", "n", "g", "\"">>,
          <<"!", "f", "a", "l", "s", "e">>,
          <<"p", "r", "i", "n", "t", " ", "5">>,
          <<"\n", "3">>,
          <<"a", "n", "d", "y">>,
          <<"a">>,
          <<"x", "y">>,
          <<">">>,
          <<">", "=">>,
          <<">", "1">>,
          <<"1", ".", "5">>,
          <<"1", "2", ".">>,
          <<"x", "1">>}

LexSources == UNION {[1..k -> LexAlphabet] : k \in 0..MaxLexLen} \cup WrittenSources

\* Scanner::new(source) for each source
LexInit ==
    /\ phase = "scanning"
    /\ input = NoInput
    /\ compiler = NewCompiler(EmptyChunk)
    /\ kont = <<>>
    /\ vm = NewVM(EmptyChunk)
    /\ reports = <<>>
    /\ result = "none"
    /\ \E source \in LexSources : lexer = NewScanner(source)
    /\ scanned = <<>>
    /\ returned = <<>>

\* what the caller of scan_token sees of a call
Scanned(r) == [kind |-> r.kind, token |-> r.token]

\* one more scan_token call on the Scanner; after a panic or an endless
\* loop there is no further call
ScanToken ==
    /\ phase = "scanning"
    /\ Len(scanned) < MaxScans
    /\ scanned # <<>> => scanned[Len(scanned)].kind \in {"Some", "None"}
    /\ lexer' = scan_token(lexer).scanner
    /\ scanned' = Append(scanned, Scanned(scan_token(lexer)))
    /\ UNCHANGED <<phase, input, compiler, kont, vm, reports, result, returned>>

LexNext == ScanToken

LexSpec == LexInit /\ [][LexNext]_vars

\* the i-th scan_token call returned the end-of-input token
IsEof(i) == scanned[i].kind = "Some" /\ scanned[i].token.token_type = "TOKEN_EOF"

\* every scan_token call made so far has returned
AllReturned == \A i \in 1..Len(scanned) : scanned[i].kind \in {"Some", "None"}

\* at most one call returned the end-of-input token
AtMostOneEof == Cardinality({i \in 1..Len(scanned) : IsEof(i)}) <= 1

\* the calls that returned None are the calls after the end-of-input token
NoneOnlyAfterEof ==
    \A i \in 1..Len(scanned) :
        scanned[i].kind = "None" <=> \E j \in 1..(i - 1) : IsEof(j)

\* each call before the end-of-input token consumes a byte, so more calls
\* than the source has bytes have returned the end-of-input token
EofReturned ==
    Len(scanned) > Len(lexer.source) => \E i \in 1..Len(scanned) : IsEof(i)

\* C14: repeated scan_token calls on one Scanner return exactly one
\* end-of-input token, None on every call after it, and None on no call
\* before it
C14_OneEofThenNone ==
    /\ AllReturned
    /\ AtMostOneEof
    /\ NoneOnlyAfterEof
    /\ EofReturned

\* what the scan_token call of the step returned
LastScanned == scanned'[Len(scanned')]

\* the step is a scan_token call that starts on the byte at the cursor,
\* with nothing to skip, and that byte satisfies `first`
ScansAt(first(_)) ==
    /\ phase = "scanning"
    /\ Len(scanned') = Len(scanned) + 1
    /\ HasByte(lexer.source, lexer.current)
    /\ first(lexer.source[lexer.current + 1])

\* the step returned a token of `length` bytes that starts at the cursor,
\* and left the cursor after it
ReturnsToken(token_type, length) ==
    /\ LastScanned.kind = "Some"
    /\ LastScanned.token.token_type = token_type
    /\ LastScanned.token.start = lexer.current
    /\ LastScanned.token.message =
           SubSeq(lexer.source, lexer.current + 1, lexer.current + length)
    /\ lexer'.current = lexer.current + length
    /\ lexer'.current <= Len(lexer.source)

\* the length of the maximal run of bytes that satisfy `member`, from
\* offset `from` on
RunLength(source, from, member(_)) ==
    CHOOSE k \in 0..(Len(source) - from) :
        /\ \A j \in 1..k : member(source[from + j])
        /\ from + k < Len(source) => ~member(source[from + k + 1])

IsIdentifierChar(c) == is_alpha(c) \/ is_digit(c)

\* the token type of a whole word
WordType(word) ==
    IF \E rw \in ReservedWords : rw[1] = word
    THEN (CHOOSE rw \in ReservedWords : rw[1] = word)[2]
    ELSE "TOKEN_IDENTIFIER"

\* the cursor is at the first byte of a word
AtWord ==
    /\ ScansAt(is_alpha)
    /\ lexer.current > 0 => ~IsIdentifierChar(lexer.source[lexer.current])

WordLength == RunLength(lexer.source, lexer.current, IsIdentifierChar)

\* C15: a maximal run of identifier characters is returned as one token
\* whose lexeme is the whole run, a keyword token exactly when the run is a
\* reserved word and an identifier token otherwise
C15_WordIsOneToken ==
    [][AtWord =>
          ReturnsToken(WordType(SubSeq(lexer.source, lexer.current + 1,
                                       lexer.current + WordLength)),
                       WordLength)]_vars

\* the operators that `=` extends, with their one-byte and two-byte tokens
Extensible ==
    [c \in {"!", "=", "<", ">"} |->
        CASE c = "!" -> <<"TOKEN_BANG", "TOKEN_BANG_EQUAL">>
          [] c = "=" -> <<"TOKEN_EQUAL", "TOKEN_EQUAL_EQUAL">>
          [] c = "<" -> <<"TOKEN_LESS", "TOKEN_LESS_EQUAL">>
          [] c = ">" -> <<"TOKEN_GREATER", "TOKEN_GREATER_EQUAL">>]

IsExtensible(c) == c \in DOMAIN Extensible

\* the byte after the one at the cursor is `=`
EqualFollows ==
    /\ HasByte(lexer.source, lexer.current + 1)
    /\ lexer.source[lexer.current + 2] = "="

\* C16: for `!`, `=`, `<` and `>`, a following `=` gives the two-character
\* token and two bytes consumed; anything else, the end of the source
\* included, gives the one-character token and one byte consumed, the
\* cursor staying within the source
C16_OneOrTwoByteOperator ==
    [][ScansAt(IsExtensible) =>
          IF EqualFollows
          THEN ReturnsToken(Extensible[lexer.source[lexer.current + 1]][2], 2)
          ELSE ReturnsToken(Extensible[lexer.source[lexer.current + 1]][1], 1)]_vars

IsSlash(c) == c = "/"

NotLineFeed(c) == c # "\n"

\* the offset of the first byte, from offset `from` on, that is neither
\* whitespace nor inside a `//` comment
RECURSIVE SkipEnd(_, _)
SkipEnd(source, from) ==
    IF ~HasByte(source, from) THEN from
    ELSE IF source[from + 1] \in {" ", "\r", "\t", "\n"}
         THEN SkipEnd(source, from + 1)
    ELSE IF /\ source[from + 1] = "/"
            /\ HasByte(source, from + 1)
            /\ source[from + 2] = "/"
         THEN SkipEnd(source, from + RunLength(source, from, NotLineFeed))
    ELSE from

\* C17: skipping before a token consumes only whitespace and `//` comments
\* up to the end of their line, and a `/` that no second `/` follows is
\* returned as a one-byte SLASH token that starts at its offset and leaves
\* the cursor on the byte after it
C17_SlashIsAToken ==
    [][/\ ScansAt(IsSlash) /\ ~(HasByte(lexer.source, lexer.current + 1)
                                /\ lexer.source[lexer.current + 2] = "/")
          => ReturnsToken("TOKEN_SLASH", 1)
       /\ phase = "scanning" /\ Len(scanned') = Len(scanned) + 1
                             /\ LastScanned.kind = "Some"
          => LastScanned.token.start = SkipEnd(lexer.source, lexer.current)]_vars

IsDot(c) == c = "."

\* the length of the number that starts at offset `from`: its digits, and
\* a `.` with the digits after it when a digit follows the `.`
NumberLength(source, from) ==
    LET whole == RunLength(source, from, is_digit)
        dot == from + whole
    IN  IF /\ HasByte(source, dot + 1)
           /\ source[dot + 1] = "."
           /\ is_digit(source[dot + 2])
        THEN whole + 1 + RunLength(source, dot + 1, is_digit)
        ELSE whole

\* the call before the step returned a number token
AfterNumber ==
    /\ scanned # <<>>
    /\ scanned[Len(scanned)].kind = "Some"
    /\ scanned[Len(scanned)].token.token_type = "TOKEN_NUMBER"

\* the step is a scan_token call that returned a number token
ReturnsNumber ==
    /\ phase = "scanning"
    /\ Len(scanned') = Len(scanned) + 1
    /\ LastScanned.kind = "Some"
    /\ LastScanned.token.token_type = "TOKEN_NUMBER"

\* C18: the lexeme of a number token is the maximal run of digits,
\* extended by `.` and the digits after it only when a digit follows the
\* `.`; the cursor after the token is its start plus the lexeme length, and
\* a `.` left after a number is returned as the next token
C18_NumberLexeme ==
    [][/\ ScansAt(is_digit)
          => ReturnsToken("TOKEN_NUMBER", NumberLength(lexer.source, lexer.current))
       /\ ReturnsNumber
          => /\ is_digit(lexer.source[LastScanned.token.start + 1])
             /\ Len(LastScanned.token.message) =
                    NumberLength(lexer.source, LastScanned.token.start)
             /\ LastScanned.token.message =
                    SubSeq(lexer.source, LastScanned.token.start + 1, lexer'.current)
             /\ lexer'.current =
                    LastScanned.token.start + Len(LastScanned.token.message)
       /\ AfterNumber /\ ScansAt(IsDot) => ReturnsToken("TOKEN_DOT", 1)]_vars

\* `12.` has been lexed as the number 12 and a dot
C18_Witness ==
    /\ phase = "scanning"
    /\ lexer.source = <<"1", "2", ".">>
    /\ Len(scanned) = 2
    /\ scanned[1].token = Token("TOKEN_NUMBER", <<"1", "2">>, 0, 1)
    /\ scanned[2].token = Token("TOKEN_DOT", <<".">>, 2, 1)
    /\ lexer.current = 3

ComparisonOps == {"==", "!=", ">", ">=", "<", "<="}

\* the call was given `a op b`, a and b numbers and op a comparison or an
\* equality operator
ComparesNumbers ==
    /\ input.kind = "expr"
    /\ input.expr[1] = "bin"
    /\ input.expr[2] \in ComparisonOps
    /\ input.expr[3][1] = "lit" /\ input.expr[3][2] = "number"
    /\ input.expr[4][1] = "lit" /\ input.expr[4][2] = "number"

\* C19: `a == b` compiles to a, b, EQUAL; `a != b` to a, b, EQUAL, NOT;
\* `a > b` to a, b, GREATER; `a >= b` to a, b, LESS, NOT; `a < b` to a, b,
\* LESS; `a <= b` to a, b, GREATER, NOT; each followed by RETURN, and
\* compile returns true
C19_ComparisonsCompile ==
    Compiled /\ ComparesNumbers =>
        /\ compiler.status = "ok"
        /\ CompileResult(compiler)
        /\ compiler.chunk.code =
               <<OP_CONSTANT, 0, OP_CONSTANT, 1>> \o BinaryCode(input.expr[2])
                   \o <<OP_RETURN>>
        /\ compiler.chunk.constants.values =
               <<LitValue(input.expr[3]), LitValue(input.expr[4])>>

(***************************************************************************)
(* Interpreter::repl (main.rs:34-50): one Compiler, made by main on a      *)
(* default Chunk (main.rs:17-20), compiles line after line                 *)
(***************************************************************************)
\* the most lines the loop of repl reads
MaxCalls == 2

\* the lines read_line (main.rs:40) hands over, line feed included; each
\* starts with the first byte of a token
ReplSources ==
    {<<"1", "\n">>, <<"2", "\n">>, <<"-", "1", "\n">>, <<"(", "1", ")", "\n">>,
     <<"1", "+", "2", "\n">>, <<"+", "\n">>, <<"(", "+", "\n">>}

ReplInit ==
    /\ phase = "idle"
    /\ input = NoInput
    /\ compiler = NewCompiler(EmptyChunk)
    /\ kont = <<>>
    /\ vm = NewVM(EmptyChunk)
    /\ reports = <<>>
    /\ result = "none"
    /\ lexer = NewScanner(<<>>)
    /\ scanned = <<>>
    /\ returned = <<>>

\* the compile calls begun so far
Calls == Len(returned) + (IF phase = "idle" THEN 0 ELSE 1)

\* Interpreter::interpret (main.rs:47-50) of the next line: compile is
\* called on the Compiler as the call before left it, and its value dropped
ReplLine ==
    /\ phase \in {"idle", "compiled"}
    /\ Calls < MaxCalls
    /\ \E source \in ReplSources :
          /\ compiler' = compile_begin(compiler, source).compiler
          /\ input' = Input("line", source, <<>>)
    /\ kont' = IF compiler'.status = "ok" THEN <<PP(PREC_ASSIGNMENT), COMPILE_END>>
               ELSE <<>>
    /\ phase' = IF compiler'.status = "ok" THEN "compiling" ELSE "done"
    /\ result' = IF compiler'.status = "ok" THEN "none" ELSE compiler'.status
    /\ returned' = IF phase = "idle" THEN returned
                   ELSE Append(returned, [source |-> input.source,
                                          value |-> CompileResult(compiler)])
    /\ UNCHANGED <<vm, reports, lexer, scanned>>

ReplNext ==
    \/ ReplLine \/ ParsePrecedence \/ InfixLoop \/ GroupingEnd \/ UnaryEnd
    \/ BinaryEnd \/ CompileEnd

ReplSpec == ReplInit /\ [][ReplNext]_vars

\* C20: every compile call starts from a fresh lexer and fresh parser
\* flags: its first token starts at offset 0 on line 1, and the value it
\* returns is the value every earlier call on the same Compiler returned
\* for the same source
C20_CompileCallsAreIndependent ==
    [][/\ phase \in {"idle", "compiled"} /\ phase' = "compiling"
          => /\ compiler'.parser.current # NoToken
             /\ compiler'.parser.current.start = 0
             /\ compiler'.parser.current.line = 1
             /\ ~compiler'.parser.had_error
       /\ phase = "compiling" /\ phase' = "compiled"
          => \A i \in 1..Len(returned) :
                 returned[i].source = input.source
                     => returned[i].value = CompileResult(compiler')]_vars

\* C21: once the VM has detected a runtime error no further instruction is
\* fetched or executed: the instruction pointer and the stack stay as they
\* are, and the run never ends in the success outcome
C21_RuntimeErrorAborts ==
    [][reports # <<>> =>
          /\ vm'.ip = vm.ip
          /\ vm'.sp = vm.sp
          /\ vm'.stack = vm.stack
          /\ result' # "Ok"]_vars

\* the step printed a runtime error
Reports == Len(reports') = Len(reports) + 1

\* C22: the line reported for a runtime error is the line-table entry of
\* the opcode byte of the instruction that failed, whatever the stack depth,
\* and the index used is inside the line table, so that the report is made
C22_ReportedLineIsOpcodeLine ==
    [][/\ phase = "running" /\ Reports
          => reports'[Len(reports')].line = vm.chunk.lines[vm.ip + 1]
       /\ MismatchedArithmetic => result' # "panic"]_vars

\* the step is the return of a compile call
CompileReturns == phase = "compiling" /\ phase' = "compiled"

\* C23: every compile call, whether it succeeds or fails, ends by writing
\* OP_RETURN: at its return the last byte of the chunk's code is an
\* OP_RETURN that the call has appended
C23_CompileEndsWithReturn ==
    [][CompileReturns =>
          compiler'.chunk.code = Append(compiler.chunk.code, OP_RETURN)]_vars

\* C24: once the first error of a compile call has set panic_mode, no
\* further byte is written to the chunk during that call
C24_NoBytesAfterPanicMode ==
    [][phase = "compiling" /\ compiler.parser.panic_mode =>
          compiler'.chunk.code = compiler.chunk.code]_vars

\* the diagnostics printed so far
Diagnosed == Len(compiler.diagnostics)

\* the step is the start of a compile call: compile up to the end of its
\* first advance
CompileStarts ==
    /\ phase \in {"idle", "compiled"}
    /\ phase' = "compiling" \/ (phase' = "done" /\ result' \in {"panic", "hang"})

\* the step is a later part of a compile call
CompileGoesOn == phase = "compiling"

\* C25: within one compile call at most one diagnostic is reported: the
\* first error sets panic_mode and had_error together, every later error of
\* the call is suppressed, had_error stays true until the call returns, and
\* the next compile call starts with both flags cleared
C25_OneDiagnosticPerCall ==
    [][/\ CompileStarts =>
             /\ compiler'.parser.had_error <=> Diagnosed' = Diagnosed + 1
             /\ ~compiler'.parser.had_error => Diagnosed' = Diagnosed
             /\ compiler'.parser.panic_mode = compiler'.parser.had_error
       /\ CompileGoesOn =>
             /\ compiler.parser.panic_mode = compiler.parser.had_error
             /\ compiler'.parser.panic_mode = compiler'.parser.had_error
             /\ compiler.parser.had_error =>
                    compiler'.parser.had_error /\ Diagnosed' = Diagnosed
             /\ ~compiler.parser.had_error =>
                    (compiler'.parser.had_error <=> Diagnosed' = Diagnosed + 1)
             /\ Diagnosed' \in {Diagnosed, Diagnosed + 1}]_vars

\* the call on `(+` met two errors and printed one diagnostic, and the
\* call after it has returned with both flags clear
C25_Witness ==
    /\ phase = "compiled"
    /\ returned = <<[source |-> <<"(", "+", "\n">>, value |-> FALSE]>>
    /\ Diagnosed = 1
    /\ ~compiler.parser.had_error
    /\ ~compiler.parser.panic_mode

\* s is the beginning of t
IsPrefix(s, t) == Len(s) <= Len(t) /\ SubSeq(t, 1, Len(s)) = s

\* code, line table and byte count of a chunk agree in length
Aligned(chunk) == Len(chunk.code) = chunk.count /\ Len(chunk.lines) = chunk.count

\* C26: after any sequence of Chunk::write and Chunk::add_constant calls the
\* code, the line table and the byte count have the same length, and each
\* write appends one byte with its line, the line of the parser's previous
\* token when the compiler emits it, and changes no earlier code byte, line
\* entry or constant
C26_ChunkIsAppendOnly ==
    [][/\ Aligned(compiler'.chunk)
       /\ Aligned(vm'.chunk)
       /\ phase' \in {"compiling", "compiled"} /\ phase # "idle" =>
             /\ IsPrefix(compiler.chunk.code, compiler'.chunk.code)
             /\ IsPrefix(compiler.chunk.lines, compiler'.chunk.lines)
             /\ IsPrefix(compiler.chunk.constants.values,
                         compiler'.chunk.constants.values)
             /\ compiler'.chunk.constants.count =
                    Len(compiler'.chunk.constants.values)
       /\ phase' \in {"compiling", "compiled"} =>
             \A i \in 1..Len(compiler'.chunk.lines) :
                 i > Len(compiler.chunk.lines) \/ phase = "idle" =>
                     compiler'.chunk.lines[i] = compiler'.parser.previous.line]_vars

\* the chunk of the two-line sum has been written: nine bytes, the last two
\* on line 2
C26_Witness ==
    /\ phase = "compiled"
    /\ input.source = TwoLineSum
    /\ compiler.chunk.code =
           <<OP_CONSTANT, 0, OP_CONSTANT, 1, OP_CONSTANT, 2, OP_MULTIPLY, OP_ADD,
             OP_RETURN>>
    /\ compiler.chunk.lines = <<1, 1, 1, 1, 1, 1, 1, 2, 2>>
    /\ compiler.chunk.count = 9

\* the step of the compiler stored one more constant
StoresConstant ==
    /\ phase' \in {"compiling", "compiled"}
    /\ compiler'.chunk.constants.count = compiler.chunk.constants.count + 1

\* the value of the literal the parser has just passed
PassedLiteral ==
    IF compiler'.parser.previous.token_type = "TOKEN_STRING"
    THEN VAL_OBJECT(compiler'.parser.previous.message)
    ELSE ParseValue(compiler'.parser.previous.message).val

\* C27: the k-th number or string literal of the source, counting from 0
\* and with no merging of equal literals, is stored at constant-pool index
\* k and is emitted as OP_CONSTANT followed by the operand byte k, so the
\* operand is a valid pool index that refers to the value of that literal
C27_LiteralKIsConstantK ==
    [][StoresConstant =>
          /\ compiler'.chunk.constants.values =
                 Append(compiler.chunk.constants.values, PassedLiteral)
          /\ compiler'.chunk.code =
                 compiler.chunk.code
                     \o <<OP_CONSTANT, Len(compiler.chunk.constants.values)>>]_vars

=============================================================================
